---- MODULE Spec2Model ----
(***************************************************************************)
(* Model of the recipe manager CLI dispatcher (src/index.js).  Each yargs  *)
(* command handler is one action, and each continuation it registers (the  *)
(* getRecipeById callback, the .then callback of a prompt, the completion  *)
(* of a Store write) is one further action.  The Recipe Model, the Recipe  *)
(* Store wrappers and the prompts live in modules the handlers import;     *)
(* they are modelled from their documented contracts.                      *)
(***************************************************************************)
EXTENDS Integers, Sequences, FiniteSets, TLC

\* ---------------------------------------------------------------- bounds
\* largest collection explored, counted as recipes + steps + ingredients
MaxSize == 4
\* largest id the Store hands out
MaxId == 3

\* ------------------------------------------------------ program constants
DefaultQuickTime == 30

\* ------------------------------------------------------------ input sets
Names == {"", "Tea"}
CookTimes == {0 - 1, 30, 45}
ServingsIn == {0, 2}
Instructions == {"", "boil", "pour"}
IngredientNames == {"", "Water"}
Ids == 1 .. MaxId
StepIndexArgs == {{}} \cup {{n} : n \in (0 - 1) .. MaxSize}
TimeArgs == {{}, {0}, {45}}

VARIABLES store, pc, cmd, argv, recipe, pending, log

vars == <<store, pc, cmd, argv, recipe, pending, log>>

\* ------------------------------------------------------------- utilities
Ev(e, a, b) == [ev |-> e, arg |-> a, len |-> b]

E0(e) == Ev(e, 0, 0)

RECURSIVE Pick(_, _, _)
Pick(s, K, i) ==
  IF i > Len(s) THEN << >>
  ELSE (IF i \in K THEN <<s[i]>> ELSE << >>) \o Pick(s, K, i + 1)

Has(e) == \E i \in 1 .. Len(log) : log[i].ev = e

Count(e) == Cardinality({i \in 1 .. Len(log) : log[i].ev = e})

Pos(e) == CHOOSE i \in 1 .. Len(log) : log[i].ev = e

\* JavaScript truthiness of an optional numeric argument: undefined and 0
\* are falsy.  The argument is the empty set when omitted, {n} otherwise.
Truthy(a) == a # {} /\ a # {0}

Val(a) == CHOOSE n \in a : TRUE

NoArgv == [id |-> 0, stepIndex |-> {}, rawTime |-> {}, time |-> 0]

NoRecipe == [id |-> 0, name |-> "", cookingTime |-> 0, servings |-> 0,
             ingredients |-> << >>, steps |-> << >>]

NoPending == [op |-> "none", recipe |-> NoRecipe, id |-> 0]

\* ---------------------------------------------------------- Recipe Model
ValidRecipeInfo(name, cookingTime, servings) ==
  name # "" /\ cookingTime >= 0 /\ servings > 0

createRecipe(name, cookingTime, servings) ==
  [id |-> 0, name |-> name, cookingTime |-> cookingTime,
   servings |-> servings, ingredients |-> << >>, steps |-> << >>]

ValidIngredient(name) == name # ""

addIngredient(r, name, amount, unit) ==
  [r EXCEPT !.ingredients =
     Append(@, [name |-> name, amount |-> amount, unit |-> unit])]

ValidStep(instruction) == instruction # ""

addStep(r, instruction) == [r EXCEPT !.steps = Append(@, instruction)]

ValidIndex(r, index) == index >= 0 /\ index < Len(r.steps)

removeStep(r, index) ==
  [r EXCEPT !.steps =
     SubSeq(@, 1, index) \o SubSeq(@, index + 2, Len(@))]

\* ---------------------------------------------------------- Recipe Store
StoreIds(s) == {s[i].id : i \in 1 .. Len(s)}

StoreHas(s, id) == id \in StoreIds(s)

StoreGetById(s, id) ==
  IF StoreHas(s, id)
  THEN s[CHOOSE i \in 1 .. Len(s) : s[i].id = id]
  ELSE NoRecipe

MaxOf(S) == CHOOSE m \in S : \A x \in S : x <= m

NextId(s) == IF s = << >> THEN 1 ELSE MaxOf(StoreIds(s)) + 1

StoreCreate(s, r) == Append(s, [r EXCEPT !.id = NextId(s)])

StoreUpdate(s, r) == [i \in 1 .. Len(s) |-> IF s[i].id = r.id THEN r ELSE s[i]]

StoreDelete(s, id) == Pick(s, {i \in 1 .. Len(s) : s[i].id # id}, 1)

RECURSIVE Size(_)
Size(s) ==
  IF s = << >> THEN 0
  ELSE 1 + Len(Head(s).steps) + Len(Head(s).ingredients) + Size(Tail(s))

\* ---------------------------------------------------------- Query Layer
QuickRecipes(s, maxTime) ==
  Pick(s, {i \in 1 .. Len(s) : s[i].cookingTime <= maxTime}, 1)

\* ------------------------------------------------------ command-wrapper
\* getRecipeById(id, callback): the wrapper reports a missing recipe as a
\* warning and hands the callback the recipe or nothing.
NotFoundLog(r, id) ==
  IF r = NoRecipe THEN <<Ev("warn:notfound", id, 0)>> ELSE << >>

Found(r) == r # NoRecipe

\* ---------------------------------------------------------------- prompts
\* promptForStepIndex(maxIndex): the user picks a 1-based step number in
\* 1 .. maxIndex + 1; the prompt resolves to the zero-based index.
StepChoices(maxIndex) == 1 .. (maxIndex + 1)

PromptedIndex(choice) == choice - 1

\* -------------------------------------------------------------- initial
Init ==
  /\ store = << >>
  /\ pc = "idle"
  /\ cmd = "none"
  /\ argv = NoArgv
  /\ recipe = NoRecipe
  /\ pending = NoPending
  /\ log = << >>

Ready == pc \in {"idle", "done"}

\* A new process is started with the given command line; the handler runs
\* up to its first continuation.
Start(c, a, p, events) ==
  /\ Ready
  /\ cmd' = c
  /\ argv' = a
  /\ pc' = p
  /\ recipe' = NoRecipe
  /\ pending' = NoPending
  /\ log' = events
  /\ UNCHANGED store

Finish(events) ==
  /\ pc' = "done"
  /\ log' = log \o events
  /\ UNCHANGED <<cmd, argv>>

Goto(p, events) ==
  /\ pc' = p
  /\ log' = log \o events
  /\ UNCHANGED <<cmd, argv>>

\* An exception thrown inside a .then callback that has no .catch: the
\* promise is rejected and nobody handles the rejection.
Escapes(call, err) == <<E0(call), E0(err), E0("uncaught")>>

\* ------------------------------------------------------------------ list
List == Start("list", NoArgv, "list_cb", <<E0("store:list")>>)

ListCallback ==
  /\ pc = "list_cb"
  /\ Finish(<<Ev("display:list", Len(store), 0)>>)
  /\ UNCHANGED <<store, recipe, pending>>

\* ------------------------------------------------------------------ view
View ==
  \E id \in Ids :
    Start("view", [NoArgv EXCEPT !.id = id], "view_cb", <<Ev("lookup", id, 0)>>)

ViewCallback ==
  /\ pc = "view_cb"
  /\ recipe' = StoreGetById(store, argv.id)
  /\ Finish(NotFoundLog(recipe', argv.id) \o
            (IF Found(recipe') THEN <<Ev("display:details", recipe'.id, 0)>>
             ELSE << >>))
  /\ UNCHANGED <<store, pending>>

\* ---------------------------------------------------------------- format
Format ==
  \E id \in Ids :
    Start("format", [NoArgv EXCEPT !.id = id], "format_cb",
          <<Ev("lookup", id, 0)>>)

FormatCallback ==
  /\ pc = "format_cb"
  /\ recipe' = StoreGetById(store, argv.id)
  /\ Finish(NotFoundLog(recipe', argv.id) \o
            (IF Found(recipe') THEN <<Ev("display:formatted", recipe'.id, 0)>>
             ELSE << >>))
  /\ UNCHANGED <<store, pending>>

\* ---------------------------------------------------------------- create
Create ==
  /\ Size(store) < MaxSize
  /\ NextId(store) <= MaxId
  /\ Start("create", NoArgv, "create_prompt", <<E0("prompt:recipeInfo")>>)

CreatePrompted ==
  /\ pc = "create_prompt"
  /\ \E name \in Names, cookingTime \in CookTimes, servings \in ServingsIn :
       IF ValidRecipeInfo(name, cookingTime, servings)
       THEN /\ recipe' = createRecipe(name, cookingTime, servings)
            /\ pending' = [op |-> "create", recipe |-> recipe', id |-> 0]
            /\ Goto("store_pending",
                    <<E0("model:createRecipe"), E0("store:create"),
                      E0("success:created")>>)
       ELSE /\ Finish(Escapes("model:createRecipe", "throw:ValidationError"))
            /\ UNCHANGED <<recipe, pending>>
  /\ UNCHANGED store

\* -------------------------------------------------------- add-ingredient
AddIngredient ==
  \E id \in Ids :
    /\ StoreHas(store, id) => Size(store) < MaxSize
    /\ Start("add-ingredient", [NoArgv EXCEPT !.id = id], "addIngredient_cb",
             <<Ev("lookup", id, 0)>>)

\* variant: the `if (!recipe) return` guard is missing
AddIngredientCallback_NoGuard ==
  /\ pc = "addIngredient_cb"
  /\ recipe' = StoreGetById(store, argv.id)
  /\ Goto("addIngredient_prompt", <<E0("prompt:ingredient")>>)
  /\ UNCHANGED <<store, pending>>

AddIngredientCallback ==
  /\ pc = "addIngredient_cb"
  /\ recipe' = StoreGetById(store, argv.id)
  /\ IF ~Found(recipe')
     THEN Finish(NotFoundLog(recipe', argv.id))
     ELSE Goto("addIngredient_prompt", <<E0("prompt:ingredient")>>)
  /\ UNCHANGED <<store, pending>>

AddIngredientPrompted ==
  /\ pc = "addIngredient_prompt"
  /\ \E name \in IngredientNames :
       IF ValidIngredient(name)
       THEN /\ recipe' = addIngredient(recipe, name, 1, "cup")
            /\ pending' = [op |-> "update", recipe |-> recipe', id |-> recipe'.id]
            /\ Goto("store_pending",
                    <<E0("model:addIngredient"), Ev("store:update", recipe'.id, 0)>>)
       ELSE /\ Finish(Escapes("model:addIngredient", "throw:ValidationError"))
            /\ UNCHANGED <<recipe, pending>>
  /\ UNCHANGED store

\* -------------------------------------------------------------- add-step
AddStep ==
  \E id \in Ids :
    /\ StoreHas(store, id) => Size(store) < MaxSize
    /\ Start("add-step", [NoArgv EXCEPT !.id = id], "addStep_cb",
             <<Ev("lookup", id, 0)>>)

AddStepCallback ==
  /\ pc = "addStep_cb"
  /\ recipe' = StoreGetById(store, argv.id)
  /\ IF ~Found(recipe')
     THEN Finish(NotFoundLog(recipe', argv.id))
     ELSE Goto("addStep_prompt", <<E0("prompt:step")>>)
  /\ UNCHANGED <<store, pending>>

\* variant: the update is issued with the recipe as it was looked up
AddStepPrompted_StaleUpdate ==
  /\ pc = "addStep_prompt"
  /\ \E instruction \in Instructions :
       IF ValidStep(instruction)
       THEN /\ recipe' = addStep(recipe, instruction)
            /\ pending' = [op |-> "update", recipe |-> recipe, id |-> recipe.id]
            /\ Goto("store_pending",
                    <<E0("model:addStep"), Ev("store:update", recipe'.id, 0)>>)
       ELSE /\ Finish(Escapes("model:addStep", "throw:ValidationError"))
            /\ UNCHANGED <<recipe, pending>>
  /\ UNCHANGED store

AddStepPrompted ==
  /\ pc = "addStep_prompt"
  /\ \E instruction \in Instructions :
       IF ValidStep(instruction)
       THEN /\ recipe' = addStep(recipe, instruction)
            /\ pending' = [op |-> "update", recipe |-> recipe', id |-> recipe'.id]
            /\ Goto("store_pending",
                    <<E0("model:addStep"), Ev("store:update", recipe'.id, 0)>>)
       ELSE /\ Finish(Escapes("model:addStep", "throw:ValidationError"))
            /\ UNCHANGED <<recipe, pending>>
  /\ UNCHANGED store

\* ----------------------------------------------------------- remove-step
RemoveStep ==
  \E id \in Ids, stepIndex \in StepIndexArgs :
    Start("remove-step", [NoArgv EXCEPT !.id = id, !.stepIndex = stepIndex],
          "removeStep_cb", <<Ev("lookup", id, 0)>>)

\* let stepIndex = null; if (argv.stepIndex) stepIndex = argv.stepIndex - 1
\* (null is the empty set)
ZeroBased(a) == IF Truthy(a) THEN {Val(a) - 1} ELSE {}

\* variant: off-by-one upper limit
OutOfRange_OffByOne(stepIndex, r) == stepIndex < 0 \/ stepIndex > Len(r.steps)

OutOfRange(stepIndex, r) == stepIndex < 0 \/ stepIndex >= Len(r.steps)

\* removeStep(recipe, index) followed by updateExistingRecipe(recipe, msg)
RemoveAndUpdate(r, index, pre) ==
  IF ValidIndex(r, index)
  THEN /\ recipe' = removeStep(r, index)
       /\ pending' = [op |-> "update", recipe |-> recipe', id |-> recipe'.id]
       /\ Goto("store_pending",
               pre \o <<Ev("model:removeStep", index, Len(r.steps)),
                        Ev("store:update", r.id, 0)>>)
  ELSE /\ recipe' = r
       /\ pending' = pending
       /\ Finish(pre \o <<Ev("model:removeStep", index, Len(r.steps)),
                          E0("throw:IndexError"), E0("uncaught")>>)

RemoveStepCallback ==
  /\ pc = "removeStep_cb"
  /\ LET r == StoreGetById(store, argv.id)
         stepIndex == ZeroBased(argv.stepIndex)
     IN  IF ~Found(r)
         THEN /\ Finish(NotFoundLog(r, argv.id))
              /\ recipe' = r
              /\ pending' = pending
         ELSE IF Len(r.steps) = 0
         THEN /\ Finish(<<E0("warn:nosteps")>>)
              /\ recipe' = r
              /\ pending' = pending
         ELSE IF stepIndex = {}
         THEN /\ Goto("removeStep_prompt",
                      <<Ev("print:steps", Len(r.steps), 0),
                        Ev("prompt:stepIndex", Len(r.steps) - 1, 0)>>)
              /\ recipe' = r
              /\ pending' = pending
         ELSE IF OutOfRange(Val(stepIndex), r)
         THEN /\ Finish(<<Ev("warn:invalidindex", Len(r.steps), 0)>>)
              /\ recipe' = r
              /\ pending' = pending
         ELSE RemoveAndUpdate(r, Val(stepIndex), << >>)
  /\ UNCHANGED store

RemoveStepPrompted ==
  /\ pc = "removeStep_prompt"
  /\ \E choice \in StepChoices(Len(recipe.steps) - 1) :
       RemoveAndUpdate(recipe, PromptedIndex(choice),
                       <<Ev("answer:stepIndex", choice, 0)>>)
  /\ UNCHANGED store

\* ---------------------------------------------------------------- delete
Delete ==
  \E id \in Ids :
    Start("delete", [NoArgv EXCEPT !.id = id], "delete_cb",
          <<Ev("lookup", id, 0)>>)

DeleteCallback ==
  /\ pc = "delete_cb"
  /\ recipe' = StoreGetById(store, argv.id)
  /\ IF ~Found(recipe')
     THEN Finish(NotFoundLog(recipe', argv.id))
     ELSE Goto("delete_prompt", <<E0("prompt:confirm")>>)
  /\ UNCHANGED <<store, pending>>

\* variant: the answer to the confirmation is ignored
DeletePrompted_NoConfirm ==
  /\ pc = "delete_prompt"
  /\ \E confirmed \in BOOLEAN :
       /\ pending' = [op |-> "delete", recipe |-> NoRecipe, id |-> argv.id]
       /\ Goto("store_pending",
               <<Ev("answer:confirm", IF confirmed THEN 1 ELSE 0, 0),
                 Ev("store:delete", argv.id, 0)>>)
  /\ UNCHANGED <<store, recipe>>

DeletePrompted ==
  /\ pc = "delete_prompt"
  /\ \E confirmed \in BOOLEAN :
       IF ~confirmed
       THEN /\ Finish(<<Ev("answer:confirm", 0, 0), E0("info:deletecancelled")>>)
            /\ UNCHANGED pending
       ELSE /\ pending' = [op |-> "delete", recipe |-> NoRecipe, id |-> argv.id]
            /\ Goto("store_pending",
                    <<Ev("answer:confirm", 1, 0), Ev("store:delete", argv.id, 0)>>)
  /\ UNCHANGED <<store, recipe>>

\* ----------------------------------------------------------------- quick
\* yargs fills in the default when the positional is omitted
ParsedTime(raw) == IF raw = {} THEN DefaultQuickTime ELSE Val(raw)

Quick ==
  \E raw \in TimeArgs :
    Start("quick", [NoArgv EXCEPT !.rawTime = raw, !.time = ParsedTime(raw)],
          "quick_cb", <<Ev("store:quick", ParsedTime(raw), 0)>>)

RECURSIVE RecipeLines(_)
RecipeLines(rs) ==
  IF rs = << >> THEN << >>
  ELSE <<Ev("print:recipe", Head(rs).id, Head(rs).cookingTime)>>
       \o RecipeLines(Tail(rs))

\* variant: a single match is treated as no match
QuickOutput_MoreThanOne(quickRecipes, maxTime) ==
  IF Len(quickRecipes) > 1
  THEN <<Ev("print:found", Len(quickRecipes), maxTime)>>
       \o RecipeLines(quickRecipes)
  ELSE <<Ev("warn:noquick", maxTime, 0)>>

QuickOutput(quickRecipes, maxTime) ==
  IF Len(quickRecipes) > 0
  THEN <<Ev("print:found", Len(quickRecipes), maxTime)>>
       \o RecipeLines(quickRecipes)
  ELSE <<Ev("warn:noquick", maxTime, 0)>>

QuickCallback ==
  /\ pc = "quick_cb"
  /\ Finish(QuickOutput(QuickRecipes(store, argv.time), argv.time))
  /\ UNCHANGED <<store, recipe, pending>>

\* ------------------------------------------------------------ reset-data
\* what `npm run reset-data` leaves behind when it succeeds
DefaultData == << >>

ResetData == Start("reset-data", NoArgv, "reset_prompt", <<E0("prompt:confirm")>>)

\* variant: execSync is not wrapped in try/catch
ResetOutcome_NoCatch(ok) ==
  IF ok THEN <<E0("exec:reset"), E0("success:reset")>>
  ELSE <<E0("exec:reset"), E0("throw:exec"), E0("uncaught")>>

ResetOutcome(ok) ==
  IF ok THEN <<E0("exec:reset"), E0("success:reset")>>
  ELSE <<E0("exec:reset"), E0("throw:exec"), E0("error:reset")>>

ResetPrompted ==
  /\ pc = "reset_prompt"
  /\ \E confirmed \in BOOLEAN, ok \in BOOLEAN :
       IF ~confirmed
       THEN /\ Finish(<<Ev("answer:confirm", 0, 0), E0("info:resetcancelled")>>)
            /\ UNCHANGED store
       ELSE /\ Finish(<<Ev("answer:confirm", 1, 0)>> \o ResetOutcome(ok))
            /\ store' = IF ok THEN DefaultData ELSE store
  /\ UNCHANGED <<recipe, pending>>

\* ------------------------------------------- completion of a Store write
StoreCreateComplete ==
  /\ pc = "store_pending"
  /\ pending.op = "create"
  /\ store' = StoreCreate(store, pending.recipe)
  /\ pending' = NoPending
  /\ Finish(<<Ev("store:create:done", NextId(store), 0)>>)
  /\ UNCHANGED recipe

StoreUpdateComplete ==
  /\ pc = "store_pending"
  /\ pending.op = "update"
  /\ store' = StoreUpdate(store, pending.recipe)
  /\ pending' = NoPending
  /\ Finish(<<Ev("store:update:done", pending.id, 0), E0("success:update")>>)
  /\ UNCHANGED recipe

StoreDeleteComplete ==
  /\ pc = "store_pending"
  /\ pending.op = "delete"
  /\ store' = StoreDelete(store, pending.id)
  /\ pending' = NoPending
  /\ Finish(<<Ev("store:delete:done", pending.id, 0), E0("success:delete")>>)
  /\ UNCHANGED recipe

StoreFail ==
  /\ pc = "store_pending"
  /\ pending.op # "none"
  /\ pending' = NoPending
  /\ Finish(<<E0("store:failed"), E0("error:store")>>)
  /\ UNCHANGED <<store, recipe>>

Next ==
  \/ List \/ ListCallback
  \/ View \/ ViewCallback
  \/ Format \/ FormatCallback
  \/ Create \/ CreatePrompted
  \/ AddIngredient \/ AddIngredientCallback \/ AddIngredientPrompted
  \/ AddStep \/ AddStepCallback \/ AddStepPrompted
  \/ RemoveStep \/ RemoveStepCallback \/ RemoveStepPrompted
  \/ Delete \/ DeleteCallback \/ DeletePrompted
  \/ Quick \/ QuickCallback
  \/ ResetData \/ ResetPrompted
  \/ StoreCreateComplete \/ StoreUpdateComplete \/ StoreDeleteComplete
  \/ StoreFail

Spec == Init /\ [][Next]_vars

\* ======================================================================
\* Properties
\* ======================================================================
IdCommands ==
  {"view", "format", "add-ingredient", "add-step", "remove-step", "delete"}

LookupPcs ==
  {"view_cb", "format_cb", "addIngredient_cb", "addStep_cb", "removeStep_cb",
   "delete_cb"}

\* the 1-based positions of the print:recipe lines of the log, in order
Lines == Pick(log, {i \in 1 .. Len(log) : log[i].ev = "print:recipe"}, 1)

StorePos(id) == CHOOSE i \in 1 .. Len(store) : store[i].id = id

\* remove-step has looked the recipe up and the Store still holds the record
\* as it was looked up
RemoveStepLookedUp ==
  /\ cmd = "remove-step"
  /\ pc # "removeStep_cb"
  /\ StoreHas(store, argv.id)
  /\ ~Has("store:update:done")

StepCount == Len(StoreGetById(store, argv.id).steps)

\* C1: in every id-taking command, when the lookup yields no recipe the
\* handler does nothing more: the process ends with only the lookup and the
\* not-found warning behind it, no prompt, no Model call, no Store write in
\* flight, and the stored collection is the one it started with.
C1_NotFoundNoAction ==
  [][(cmd' \in IdCommands /\ pc' \notin LookupPcs /\ ~Found(recipe'))
       => /\ pc' = "done"
          /\ log' = <<Ev("lookup", argv'.id, 0), Ev("warn:notfound", argv'.id, 0)>>
          /\ pending' = NoPending
          /\ store' = store]_vars

C1_Witness ==
  /\ cmd = "add-ingredient"
  /\ pc = "done"
  /\ ~Found(recipe)
  /\ store # << >>

\* C2: in remove-step on an existing recipe with at least one step, a
\* supplied stepIndex outside 1 .. stepCount (0 and negatives included) is
\* rejected with the invalid-index warning: no prompt, no removeStep, no
\* update, the command is over.
C2_OutOfRangeRejected ==
  (/\ RemoveStepLookedUp
   /\ StepCount >= 1
   /\ argv.stepIndex # {}
   /\ Val(argv.stepIndex) \notin 1 .. StepCount)
    => /\ Has("warn:invalidindex")
       /\ ~Has("model:removeStep")
       /\ ~Has("store:update")
       /\ pc = "done"

\* C3: in remove-step on an existing recipe with at least one step, the
\* steps are listed and the index prompt is issued if and only if the
\* stepIndex argument was omitted.
C3_PromptIffOmitted ==
  (RemoveStepLookedUp /\ StepCount >= 1)
    => /\ Has("prompt:stepIndex") <=> argv.stepIndex = {}
       /\ Has("print:steps") <=> argv.stepIndex = {}

\* C4: delete calls the Store's delete for the given id if and only if the
\* recipe was found and the user answered yes; on a no, 'Delete cancelled'
\* is shown, the Store's delete is not called and the collection is
\* unchanged.  The collection only ever changes after a delete was called.
C4_DeleteIffConfirmed ==
  [][cmd' = "delete" =>
       /\ (\E i \in 1 .. Len(log') : log'[i] = Ev("store:delete", argv'.id, 0))
            <=> (Found(recipe') /\ Ev("answer:confirm", 1, 0) \in
                                     {log'[i] : i \in 1 .. Len(log')})
       /\ (\A i \in 1 .. Len(log') :
             log'[i].ev = "store:delete" => log'[i].arg = argv'.id)
       /\ (Ev("answer:confirm", 0, 0) \in {log'[i] : i \in 1 .. Len(log')})
            => /\ log'[Len(log')] = E0("info:deletecancelled")
               /\ pc' = "done"
               /\ pending' = NoPending
               /\ store' = store
       /\ store' # store
            => \E i \in 1 .. Len(log') : log'[i].ev = "store:delete"]_vars

C4_Witness ==
  /\ cmd = "delete"
  /\ pc = "done"
  /\ Has("info:deletecancelled")
  /\ StoreHas(store, argv.id)

\* C5: in create, the 'created successfully' message is displayed only after
\* the Store's create has completed: never while it is pending, never after
\* it failed.
C5_SuccessAfterCreate ==
  (cmd = "create" /\ Has("success:created"))
    => /\ Has("store:create:done")
       /\ Pos("store:create:done") < Pos("success:created")

\* C6: an error raised by a Model call inside a handler is caught by the
\* dispatcher and turned into a message for the user; it never escapes
\* uncaught, and no Store write and no success message follows it.
C6_ModelErrorsCaught ==
  (Has("throw:ValidationError") \/ Has("throw:IndexError"))
    => /\ ~Has("uncaught")
       /\ Has("warn:model") \/ Has("error:model")
       /\ ~Has("store:create") /\ ~Has("store:update")
       /\ ~Has("success:created") /\ ~Has("success:update")

\* C7: reset-data runs the external procedure only after a yes; on a no the
\* procedure is not run and 'Reset cancelled' is shown.  After a confirmed
\* run exactly one outcome message is shown, success if the procedure
\* returned and the error message if it failed, and the failure never
\* escapes the handler.
C7_ResetOutcome ==
  (cmd = "reset-data" /\ pc = "done")
    => /\ Has("exec:reset") <=> log[2] = Ev("answer:confirm", 1, 0)
       /\ log[2] = Ev("answer:confirm", 0, 0)
            => log = <<E0("prompt:confirm"), Ev("answer:confirm", 0, 0),
                       E0("info:resetcancelled")>>
       /\ Has("exec:reset")
            => /\ Pos("answer:confirm") < Pos("exec:reset")
               /\ Count("exec:reset") = 1
               /\ Count("success:reset") + Count("error:reset") = 1
               /\ Has("error:reset") <=> Has("throw:exec")
               /\ ~Has("uncaught")
               /\ log[Len(log)].ev \in {"success:reset", "error:reset"}
               /\ Pos("exec:reset") < Len(log)

C7_Witness ==
  /\ cmd = "reset-data"
  /\ pc = "done"
  /\ Has("error:reset")

\* C8: quick uses the supplied time, or 30 when none is supplied, and prints
\* one line for exactly each stored recipe with cookingTime <= time, in
\* Store order; when none qualifies it prints the 'No quick recipes found'
\* warning and no recipe line, and nothing is reported as an error.
C8_QuickLines ==
  (cmd = "quick" /\ pc = "done")
    => LET time == IF argv.rawTime = {} THEN 30 ELSE Val(argv.rawTime)
       IN  /\ \A i \in 1 .. Len(store) :
                Cardinality({j \in 1 .. Len(Lines) : Lines[j].arg = store[i].id})
                  = IF store[i].cookingTime <= time THEN 1 ELSE 0
           /\ \A j \in 1 .. Len(Lines) : StoreHas(store, Lines[j].arg)
           /\ \A j, k \in 1 .. Len(Lines) :
                j < k => StorePos(Lines[j].arg) < StorePos(Lines[k].arg)
           /\ Has("warn:noquick") <=> Lines = << >>
           /\ Has("warn:noquick")
                => log = <<Ev("store:quick", time, 0), Ev("warn:noquick", time, 0)>>
           /\ ~Has("uncaught")

C8_Witness ==
  /\ cmd = "quick"
  /\ pc = "done"
  /\ argv.rawTime = {}
  /\ Len(store) = 2
  /\ Len(Lines) = 1

\* C9: a successful add-ingredient, add-step or remove-step runs lookup,
\* prompt (if any), Model mutation, Store update in that order; update is
\* called once, after the mutation, for the id that was looked up, and once
\* it completes the Store's record for that id is the old record with the
\* ingredient or step appended at the end, or with the chosen step removed.
C9_MutateThenUpdate ==
  [][(/\ cmd' \in {"add-ingredient", "add-step", "remove-step"}
      /\ ~Has("store:update:done")
      /\ \E i \in 1 .. Len(log') : log'[i].ev = "store:update:done")
       => LET old == StoreGetById(store, argv.id)
              new == StoreGetById(store', argv.id)
              call == IF cmd = "add-ingredient" THEN "model:addIngredient"
                      ELSE IF cmd = "add-step" THEN "model:addStep"
                      ELSE "model:removeStep"
              k == log[Pos(call)].arg
          IN  /\ Count("store:update") = 1
              /\ Count(call) = 1
              /\ log[1] = Ev("lookup", argv.id, 0)
              /\ Pos(call) < Pos("store:update")
              /\ \A i \in 1 .. Len(log) :
                   log[i].ev \in {"prompt:ingredient", "prompt:step",
                                  "prompt:stepIndex"} => 1 < i /\ i < Pos(call)
              /\ log[Pos("store:update")].arg = argv.id
              /\ new.id = argv.id
              /\ new = recipe
              /\ StoreIds(store') = StoreIds(store)
              /\ \A i \in 1 .. Len(store) :
                   store[i].id # argv.id => store'[i] = store[i]
              /\ cmd = "add-ingredient"
                   => /\ new.steps = old.steps
                      /\ Len(new.ingredients) = Len(old.ingredients) + 1
                      /\ SubSeq(new.ingredients, 1, Len(old.ingredients))
                           = old.ingredients
                      /\ new.ingredients[Len(new.ingredients)].name # ""
              /\ cmd = "add-step"
                   => /\ new.ingredients = old.ingredients
                      /\ Len(new.steps) = Len(old.steps) + 1
                      /\ SubSeq(new.steps, 1, Len(old.steps)) = old.steps
                      /\ new.steps[Len(new.steps)] # ""
              /\ cmd = "remove-step"
                   => /\ new.ingredients = old.ingredients
                      /\ Len(new.steps) = Len(old.steps) - 1
                      /\ \A i \in 1 .. Len(new.steps) :
                           new.steps[i] = IF i <= k THEN old.steps[i]
                                          ELSE old.steps[i + 1]]_vars

C9_Witness ==
  /\ cmd = "remove-step"
  /\ Has("store:update:done")
  /\ Has("prompt:stepIndex")
  /\ Len(recipe.steps) >= 1
  /\ StoreGetById(store, argv.id) = recipe

\* C10: removeStep is only ever invoked with a zero-based index inside
\* [0, steps.length), equal to the user's 1-based choice minus one, whether
\* the choice came from the argument or from the prompt; a recipe without
\* steps gets the 'no steps to remove' warning, no removeStep and no update.
C10_RemoveIndexInRange ==
  /\ \A i \in 1 .. Len(log) :
       log[i].ev = "model:removeStep"
         => /\ log[i].len >= 1
            /\ log[i].arg >= 0
            /\ log[i].arg < log[i].len
            /\ log[i].arg =
                 (IF Has("answer:stepIndex")
                  THEN log[Pos("answer:stepIndex")].arg
                  ELSE Val(argv.stepIndex)) - 1
  /\ (RemoveStepLookedUp /\ StepCount = 0)
       => /\ log = <<Ev("lookup", argv.id, 0), E0("warn:nosteps")>>
          /\ pc = "done"
          /\ pending = NoPending

C10_Witness ==
  /\ cmd = "remove-step"
  /\ ~Has("prompt:stepIndex")
  /\ \E i \in 1 .. Len(log) :
       log[i].ev = "model:removeStep" /\ log[i].arg = 1 /\ log[i].len = 2
====
